---- MODULE Spec2Model ----
(***************************************************************************)
(* Model of the chaptered-text-to-audio pipeline of epub2tts:              *)
(*   converters/book_converter.py  BookConverter.convert_book,             *)
(*                                 BookConverter.convert_chapter,          *)
(*                                 BookConverter._process_chunk            *)
(*   gui.py                        convert, conversion_worker,             *)
(*                                 stop_conversion                         *)
(* The thread pool of convert_chapter is modelled after                    *)
(* concurrent.futures.ThreadPoolExecutor (FIFO work queue, at most         *)
(* max_workers tasks running) and concurrent.futures.as_completed (the     *)
(* futures already finished at the call are yielded in set order, the      *)
(* others in completion order).                                            *)
(***************************************************************************)
EXTENDS Integers, Sequences, FiniteSets, TLC

\* ---------------------------------------------------------------- bounds
MaxChapters == 2
MaxChunks == 3
MaxWorkers == 2
MaxTextLen == 4
MaxChunkSize == 3
MaxOverlap == 1
MaxCalls == 4
MaxOutline == 3
MaxPages == 2
MaxLines == 3
MaxSentences == 201

VARIABLES
    n_chapters,       \* len(self.ebook.get_chapters())
    max_workers,      \* self.max_workers
    pc,               \* position of the thread running convert_book
    result,           \* how convert_book ended: "none", "path", "null", "raised"
    exc,              \* the exception being propagated, if any
    chapter,          \* loop variable i of convert_book
    chapter_files,    \* convert_book: chapter_files (chapter indices)
    chapter_result,   \* return value of the current convert_chapter call
    n_chunks,         \* len(chunks) of the current convert_chapter call
    task,             \* state of the future of each chunk index
    initial_finished, \* as_completed: futures finished at the call
    finished_futures, \* as_completed: waiter.finished_futures, completion order
    collected,        \* number of futures as_completed has yielded
    chunk_files,      \* convert_chapter: chunk_files (chunk indices)
    concat_arg,       \* list handed to combine_audio_files by convert_chapter
    book_concat,      \* lists handed to combine_audio_files by convert_book
    n_synth,          \* save_to_file calls started during this convert_book
    status_log,       \* arguments of the status_callback calls, in order
    progress,         \* last argument of progress_callback, as a fraction
    keep_temp_files,  \* self.keep_temp_files
    temp_dir_set,     \* self.temp_dir is configured (not None)
    chapter_text,     \* convert_chapter: chapter_text ("none", "empty", "text")
    frag_files,       \* chunk indices whose fragment file of this chapter exists
    stale_frags,      \* fragment files of earlier chapters of this run exist
    chapter_out_files,\* chapter indices whose chapter output file exists
    tmp_dirs,         \* directories made by mkdtemp in this run that still exist
    is_converting,    \* gui: self.is_converting
    stop_requested,   \* gui: self.stop_requested
    gui_status,       \* gui: text shown by set_status
    gui_progress,     \* gui: self.progress_var
    dialog,           \* gui: last messagebox shown by the worker
    worker,           \* gui: position of the conversion_worker thread
    ui_pc,            \* gui: position of the UI thread inside convert()
    text,             \* text_utils: argument text of split_text_into_chunks
    chunk_size,       \* text_utils: argument chunk_size
    overlap,          \* text_utils: argument overlap
    chunks,           \* text_utils: list returned by split_text_into_chunks
    seeds,            \* text_utils: overlap_text each returned chunk began with
    text_pc,          \* text_utils: "idle", "call", "done"
    processor_chapters, \* ebook: length of the list processor.get_chapters finds
    chapters,         \* ebook: len(self.chapters), the cached list
    discoveries,      \* ebook: processor.get_chapters calls that returned
    calls,            \* ebook: calls made on the Ebook so far
    last_call,        \* ebook: the last call and how it ended
    format,           \* ebook: self.format, "epub", "pdf" or "txt"
    meta_src,         \* document: how title, author, language appear in it
    metadata,         \* processor: self.metadata after _extract_metadata
    title,            \* ebook: self.title
    author,           \* ebook: self.author
    language,         \* ebook: self.language
    chapter_titles,   \* processor: the 'title' stored with each chapter
    access,           \* the last get_chapter_text/title call and its outcome
    lines,            \* text processor: self.text.split('\n'), by kind of line
    total_sentences,  \* text processor: len(split_into_sentences(self.text))
    txt_chapters,     \* text processor: self.chapters
    outline,          \* pdf processor: self.pdf.outline
    n_pages,          \* pdf processor: len(self.pages)
    pdf_chapters,     \* pdf processor: self.chapters
    doc_pc            \* "idle", "new" (not yet loaded), "loaded"

text_vars == <<text, chunk_size, overlap, chunks, seeds, text_pc>>
ebook_vars == <<processor_chapters, chapters, discoveries, calls, last_call>>
meta_vars == <<meta_src, metadata, title, author, language>>
access_vars == <<chapter_titles, access>>
txt_vars == <<lines, total_sentences, txt_chapters>>
pdf_vars == <<outline, n_pages, pdf_chapters>>
doc_vars == <<format, meta_vars, access_vars, txt_vars, pdf_vars, doc_pc>>
file_vars == <<frag_files, stale_frags, chapter_out_files, tmp_dirs>>
conv_vars == <<n_chapters, max_workers, keep_temp_files, temp_dir_set, pc,
               result, exc, chapter, chapter_files,
               chapter_result, n_chunks, task, initial_finished,
               finished_futures, collected, chunk_files, concat_arg,
               book_concat, n_synth, status_log, progress, chapter_text,
               file_vars>>
gui_vars == <<is_converting, stop_requested, gui_status, gui_progress, dialog,
              worker, ui_pc>>
gui_flags == <<is_converting, stop_requested, dialog, worker, ui_pc>>
vars == <<conv_vars, gui_vars, text_vars, ebook_vars, doc_vars>>

\* ---------------------------------------------------------------- helpers
NoTasks == [k \in {} |-> "none"]
NoExc == [kind |-> "none", where |-> "none"]
Msg(m, i) == [msg |-> m, i |-> i]
ZeroProgress == [num |-> 0, den |-> 1]

Chunks == 0 .. (n_chunks - 1)
Running == {k \in DOMAIN task : task[k] = "running"}
Finished == {k \in DOMAIN task : task[k] \in {"ok", "fail"}}
Succeeded == {k \in DOMAIN task : task[k] = "ok"}
Submitted == {k \in DOMAIN task : task[k] # "none"}

\* The conversion runs inside the GUI's conversion_worker thread.
InGui == worker = "converting"

\* Number of save_to_file calls in progress on self.tts_engine.
InFlight == Cardinality(Running) + (IF pc = "single_call" THEN 1 ELSE 0)

Range(s) == {s[a] : a \in 1 .. Len(s)}

\* a/b <= c/d for fractions with positive denominators
FracLeq(a, b) == a.num * b.den <= b.num * a.den

\* ------------------------------------------------------------- callbacks
\* status_callback(m): simple_cli/cli print it; the GUI's status_callback
\* (gui.py 680-682) forwards it to set_status unless a stop was requested.
StatusCallback(m) ==
    /\ status_log' = Append(status_log, m)
    /\ gui_status' = IF InGui /\ ~stop_requested THEN m ELSE gui_status

\* progress_callback(p): the GUI's progress_callback (gui.py 675-677) sets
\* progress_var unless a stop was requested.
ProgressCallback(p) ==
    /\ progress' = p
    /\ gui_progress' = IF InGui /\ ~stop_requested THEN p ELSE gui_progress

NoCallback == UNCHANGED <<status_log, gui_status, progress, gui_progress>>

\* Mutant of OverallProgress: the chapter index is left out of the sum.
OverallProgressNoChapter(i, current, total) ==
    [num |-> current, den |-> total * n_chapters]

\* chapter_progress: (i + current / total) / len(chapters) * 100, kept as the
\* exact fraction (i * total + current) / (total * len(chapters)) of 100.
OverallProgress(i, current, total) ==
    [num |-> i * total + current, den |-> total * n_chapters]

\* The value convert_chapter passes as `current`: the position i + 1 of the
\* future in as_completed's enumeration (not the chunk's own index).
ProgressCurrent(i, chunk_index) == i + 1

\* Mutant of CollectFragment: the `if chunk_file` test is missing.
CollectFragmentAlways(files, chunk_index, chunk_ok) == Append(files, chunk_index)

\* What convert_chapter does with chunk_file = future.result().
CollectFragment(files, chunk_index, chunk_ok) ==
    IF chunk_ok THEN Append(files, chunk_index) ELSE files

\* The list convert_chapter hands to combine_audio_files: chunk_files as
\* collected, in the order as_completed yielded the futures.
FragmentList(files) == files

\* tempfile.mkdtemp is called only when self.temp_dir is not configured
\* (convert_book 196-200, convert_chapter 63-67).
MkdTemp(dirs, configured) == IF configured THEN dirs ELSE dirs + 1

\* Mutant of DeleteFragments: keep_temp_files is not consulted.
DeleteFragmentsAlways(frags, files, keep) == frags \ Range(files)

\* convert_chapter 136-142: the collected chunk files are unlinked unless
\* keep_temp_files is set.
DeleteFragments(frags, files, keep) == IF keep THEN frags ELSE frags \ Range(files)

\* convert_book 247-253: the chapter files are unlinked unless keep_temp_files
\* is set.
DeleteChapterFiles(outs, files, keep) == IF keep THEN outs ELSE outs \ Range(files)

\* convert_book 255-260: os.rmdir of convert_book's own temporary directory.
RemoveTempDir(dirs, keep, configured) ==
    IF ~keep /\ ~configured THEN dirs - 1 ELSE dirs

\* ------------------------------------------------------------------ Init
GuiIdle ==
    /\ is_converting = FALSE
    /\ stop_requested = FALSE
    /\ gui_status = Msg("Ready", 0)
    /\ gui_progress = ZeroProgress
    /\ dialog = "none"
    /\ worker = "none"
    /\ ui_pc = "idle"

\* No split_text_into_chunks call is being examined.
TextIdle ==
    /\ text = <<>>
    /\ chunk_size = 1
    /\ overlap = 0
    /\ chunks = <<>>
    /\ seeds = <<>>
    /\ text_pc = "idle"

\* Ebook.__init__ 37-41: self.chapters = []; no call has been made yet.
EbookNew ==
    /\ chapters = 0
    /\ discoveries = 0
    /\ calls = 0
    /\ last_call = [op |-> "none", out |-> "none"]

\* Config defaults: 'temp_dir': None, 'keep_temp_files': False.
ConfigDefault ==
    /\ keep_temp_files = FALSE
    /\ temp_dir_set = FALSE

\* A caller's configuration may set either option.
ConfigAny ==
    /\ keep_temp_files \in BOOLEAN
    /\ temp_dir_set \in BOOLEAN

ConverterNew ==
    /\ n_chapters \in 0 .. MaxChapters
    /\ max_workers \in 1 .. MaxWorkers
    /\ result = "none"
    /\ exc = NoExc
    /\ chapter = 0
    /\ chapter_files = <<>>
    /\ chapter_result = "none"
    /\ n_chunks = 0
    /\ task = NoTasks
    /\ initial_finished = {}
    /\ finished_futures = <<>>
    /\ collected = 0
    /\ chunk_files = <<>>
    /\ concat_arg = <<>>
    /\ book_concat = <<>>
    /\ n_synth = 0
    /\ status_log = <<>>
    /\ progress = ZeroProgress
    /\ chapter_text = "none"
    /\ frag_files = {}
    /\ stale_frags = FALSE
    /\ chapter_out_files = {}
    /\ tmp_dirs = 0

\* No document is being loaded or read through a processor.
NoMeta == [title |-> "none", author |-> "none", language |-> "none"]
NoAccess == [level |-> "none", op |-> "none", index |-> 0,
             out |-> [kind |-> "none", val |-> "none"]]
MetaIdle ==
    /\ meta_src = NoMeta
    /\ metadata = NoMeta
    /\ title = "none"
    /\ author = "none"
    /\ language = "none"
AccessIdle ==
    /\ chapter_titles = <<>>
    /\ access = NoAccess
TxtIdle ==
    /\ lines = <<>>
    /\ total_sentences = 0
    /\ txt_chapters = <<>>
PdfIdle ==
    /\ outline = <<>>
    /\ n_pages = 0
    /\ pdf_chapters = <<>>
DocIdle ==
    /\ format = "none"
    /\ MetaIdle
    /\ AccessIdle
    /\ TxtIdle
    /\ PdfIdle
    /\ doc_pc = "idle"

\* The text utilities, the Ebook and the processors are not exercised on
\* their own.
Library == TextIdle /\ EbookNew /\ processor_chapters = 0 /\ DocIdle

\* convert_book called directly (cli.py, simple_cli.py).
Init ==
    ConverterNew /\ ConfigDefault /\ GuiIdle /\ Library /\ pc = "book_start"

\* convert_book called directly on a converter built with any configuration.
InitFiles ==
    ConverterNew /\ ConfigAny /\ GuiIdle /\ Library /\ pc = "book_start"

\* ----------------------------------------------------------- convert_book
\* Per-call state of convert_chapter, cleared when the call returns.
ChapterLocalsReset ==
    /\ n_chunks' = 0
    /\ task' = NoTasks
    /\ initial_finished' = {}
    /\ finished_futures' = <<>>
    /\ collected' = 0
    /\ chunk_files' = <<>>
    /\ concat_arg' = <<>>
    /\ chapter_result' = "none"
    /\ chapter_text' = "none"

ChapterLocals == <<n_chunks, task, initial_finished, finished_futures, collected,
                   chunk_files, concat_arg, chapter_result, chapter_text>>

\* Mutant of BookStart: an empty chapter list is raised as an error.
BookStartRaise ==
    /\ pc = "book_start"
    /\ IF n_chapters = 0
       THEN /\ StatusCallback(Msg("No chapters found in book", 0))
            /\ exc' = [kind |-> "ConversionError", where |-> "book"]
            /\ pc' = "book_raise"
       ELSE /\ UNCHANGED <<status_log, gui_status, exc>>
            /\ pc' = "chapter_status"
    /\ chapter' = 0
    /\ chapter_files' = <<>>
    /\ UNCHANGED <<n_chapters, max_workers, keep_temp_files, temp_dir_set,
                   result, ChapterLocals, book_concat,
                   n_synth, progress, gui_progress, gui_flags>>
    /\ tmp_dirs' = MkdTemp(tmp_dirs, temp_dir_set)
    /\ UNCHANGED <<frag_files, stale_frags, chapter_out_files>>
    /\ UNCHANGED <<text_vars, ebook_vars, doc_vars>>

\* convert_book 194-216: no chapters -> one status, return None.
BookStart ==
    /\ pc = "book_start"
    /\ IF n_chapters = 0
       THEN /\ StatusCallback(Msg("No chapters found in book", 0))
            /\ result' = "null"
            /\ pc' = "done"
       ELSE /\ UNCHANGED <<status_log, gui_status, result>>
            /\ pc' = "chapter_status"
    /\ chapter' = 0
    /\ chapter_files' = <<>>
    /\ UNCHANGED <<n_chapters, max_workers, keep_temp_files, temp_dir_set,
                   exc, ChapterLocals, book_concat, n_synth,
                   progress, gui_progress, gui_flags>>
    /\ tmp_dirs' = MkdTemp(tmp_dirs, temp_dir_set)
    /\ UNCHANGED <<frag_files, stale_frags, chapter_out_files>>
    /\ UNCHANGED <<text_vars, ebook_vars, doc_vars>>

\* convert_book 218-220: loop head, status "Converting chapter i+1/n".
ChapterStatus ==
    /\ pc = "chapter_status"
    /\ StatusCallback(Msg("Converting chapter", chapter + 1))
    /\ pc' = "convert_chapter"
    /\ UNCHANGED <<n_chapters, max_workers, keep_temp_files, temp_dir_set,
                   result, exc, chapter, chapter_files,
                   ChapterLocals, book_concat, n_synth, progress, gui_progress,
                   gui_flags>>
    /\ UNCHANGED file_vars
    /\ UNCHANGED <<text_vars, ebook_vars, doc_vars>>

\* convert_chapter 55 and 150-152: get_chapter_text raises (the processor
\* cannot extract the text); convert_chapter re-raises as ConversionError.
ChapterTextError ==
    /\ pc = "convert_chapter"
    /\ exc' = [kind |-> "FileError", where |-> "chapter"]
    /\ pc' = "chapter_raise"
    /\ NoCallback
    /\ UNCHANGED <<n_chapters, max_workers, keep_temp_files, temp_dir_set,
                   result, chapter, chapter_files,
                   ChapterLocals, book_concat, n_synth, gui_flags>>
    /\ UNCHANGED file_vars
    /\ UNCHANGED <<text_vars, ebook_vars, doc_vars>>

\* Mutant of ConvertChapterBegin: the `if not text` test is missing, so an
\* empty text is handed to the single-chunk path.
ConvertChapterBeginNoEmptyTest(n) ==
    /\ pc = "convert_chapter"
    /\ n_chunks' = IF n = 0 THEN 1 ELSE n
    /\ chapter_result' = chapter_result
    /\ IF n <= 1
       THEN pc' = "single" /\ task' = task
       ELSE pc' = "submit" /\ task' = [k \in 0 .. (n - 1) |-> "none"]
    /\ NoCallback
    /\ UNCHANGED <<n_chapters, max_workers, keep_temp_files, temp_dir_set,
                   result, exc, chapter, chapter_files, initial_finished,
                   finished_futures, collected, chunk_files, concat_arg,
                   book_concat, n_synth, gui_flags>>
    /\ chapter_text' = IF n = 0 THEN "empty" ELSE "text"
    /\ tmp_dirs' = MkdTemp(tmp_dirs, temp_dir_set)
    /\ UNCHANGED <<frag_files, stale_frags, chapter_out_files>>
    /\ UNCHANGED <<text_vars, ebook_vars, doc_vars>>

\* convert_chapter 53-99: fetch the text, split it, choose the path.
\* n = 0: the text is empty (no chunk); n >= 1: the text splits into n chunks.
ConvertChapterBegin(n) ==
    /\ pc = "convert_chapter"
    /\ IF n = 0
       THEN /\ chapter_result' = "null"
            /\ pc' = "chapter_return"
            /\ UNCHANGED <<n_chunks, task>>
       ELSE /\ n_chunks' = n
            /\ chapter_result' = chapter_result
            /\ IF n = 1
               THEN pc' = "single" /\ task' = task
               ELSE pc' = "submit" /\ task' = [k \in 0 .. (n - 1) |-> "none"]
    /\ NoCallback
    /\ UNCHANGED <<n_chapters, max_workers, keep_temp_files, temp_dir_set,
                   result, exc, chapter, chapter_files,
                   initial_finished, finished_futures, collected, chunk_files,
                   concat_arg, book_concat, n_synth, gui_flags>>
    /\ chapter_text' = IF n = 0 THEN "empty" ELSE "text"
    /\ tmp_dirs' = IF n = 0 THEN tmp_dirs ELSE MkdTemp(tmp_dirs, temp_dir_set)
    /\ UNCHANGED <<frag_files, stale_frags, chapter_out_files>>
    /\ UNCHANGED <<text_vars, ebook_vars, doc_vars>>

\* convert_chapter 88-90: the single chunk is synthesised by the calling
\* thread itself; save_to_file is entered.
SingleCall ==
    /\ pc = "single"
    /\ pc' = "single_call"
    /\ n_synth' = n_synth + 1
    /\ NoCallback
    /\ UNCHANGED <<n_chapters, max_workers, keep_temp_files, temp_dir_set,
                   result, exc, chapter, chapter_files,
                   ChapterLocals, book_concat, gui_flags>>
    /\ UNCHANGED file_vars
    /\ UNCHANGED <<text_vars, ebook_vars, doc_vars>>

\* convert_chapter 90-96 and 150-152: save_to_file returns, or raises into
\* the except clause of convert_chapter.
SingleReturn(ok) ==
    /\ pc = "single_call"
    /\ IF ok
       THEN /\ ProgressCallback(OverallProgress(chapter, 1, 1))
            /\ chapter_result' = "path"
            /\ pc' = "chapter_return"
            /\ exc' = exc
       ELSE /\ UNCHANGED <<progress, gui_progress, chapter_result>>
            /\ exc' = [kind |-> "TTSEngineError", where |-> "chapter"]
            /\ pc' = "chapter_raise"
    /\ UNCHANGED <<n_chapters, max_workers, keep_temp_files, temp_dir_set,
                   result, chapter, chapter_files,
                   n_chunks, task, initial_finished, finished_futures, collected,
                   chunk_files, concat_arg, book_concat, n_synth, status_log,
                   gui_status, gui_flags>>
    /\ chapter_out_files' = IF ok THEN chapter_out_files \cup {chapter}
                                ELSE chapter_out_files
    /\ UNCHANGED <<chapter_text, frag_files, stale_frags, tmp_dirs>>
    /\ UNCHANGED <<text_vars, ebook_vars, doc_vars>>

\* convert_chapter 103-110: executor.submit of the next chunk, in index order.
Submit ==
    /\ pc = "submit"
    /\ LET k == Cardinality(Submitted) IN
        /\ task' = [task EXCEPT ![k] = "queued"]
        /\ pc' = IF k + 1 = n_chunks THEN "as_completed" ELSE "submit"
    /\ NoCallback
    /\ UNCHANGED <<n_chapters, max_workers, keep_temp_files, temp_dir_set,
                   result, exc, chapter, chapter_files,
                   chapter_result, n_chunks, initial_finished, finished_futures,
                   collected, chunk_files, concat_arg, book_concat, n_synth,
                   gui_flags>>
    /\ UNCHANGED <<chapter_text, file_vars>>
    /\ UNCHANGED <<text_vars, ebook_vars, doc_vars>>

\* The pool size of ThreadPoolExecutor(max_workers=self.max_workers).
PoolSize == max_workers

\* A pool thread takes the oldest queued work item and enters
\* _process_chunk 166-171: save_to_file on the shared self.tts_engine.
StartTask(k) ==
    /\ k \in DOMAIN task
    /\ task[k] = "queued"
    /\ \A j \in DOMAIN task : task[j] = "queued" => k <= j
    /\ Cardinality(Running) < PoolSize
    /\ task' = [task EXCEPT ![k] = "running"]
    /\ n_synth' = n_synth + 1
    /\ NoCallback
    /\ UNCHANGED <<n_chapters, max_workers, keep_temp_files, temp_dir_set,
                   pc, result, exc, chapter, chapter_files,
                   chapter_result, n_chunks, initial_finished, finished_futures,
                   collected, chunk_files, concat_arg, book_concat, gui_flags>>
    /\ UNCHANGED <<chapter_text, file_vars>>
    /\ UNCHANGED <<text_vars, ebook_vars, doc_vars>>

\* _process_chunk 171-177: save_to_file returns (the task returns the
\* fragment path) or raises (the task logs and returns None). The future
\* becomes finished; once as_completed has installed its waiter the future is
\* appended to waiter.finished_futures.
FinishTask(k, ok) ==
    /\ k \in DOMAIN task
    /\ task[k] = "running"
    /\ task' = [task EXCEPT ![k] = IF ok THEN "ok" ELSE "fail"]
    /\ finished_futures' = IF pc = "collect"
                           THEN Append(finished_futures, k) ELSE finished_futures
    /\ NoCallback
    /\ UNCHANGED <<n_chapters, max_workers, keep_temp_files, temp_dir_set,
                   pc, result, exc, chapter, chapter_files,
                   chapter_result, n_chunks, initial_finished, collected,
                   chunk_files, concat_arg, book_concat, n_synth, gui_flags>>
    /\ frag_files' = IF ok THEN frag_files \cup {k} ELSE frag_files
    /\ UNCHANGED <<chapter_text, stale_frags, chapter_out_files, tmp_dirs>>
    /\ UNCHANGED <<text_vars, ebook_vars, doc_vars>>

\* convert_chapter 113: as_completed(future_to_chunk) takes the set of the
\* futures that are already finished and installs a waiter for the rest.
AsCompletedStart ==
    /\ pc = "as_completed"
    /\ initial_finished' = Finished
    /\ finished_futures' = <<>>
    /\ collected' = 0
    /\ pc' = "collect"
    /\ NoCallback
    /\ UNCHANGED <<n_chapters, max_workers, keep_temp_files, temp_dir_set,
                   result, exc, chapter, chapter_files,
                   chapter_result, n_chunks, task, chunk_files, concat_arg,
                   book_concat, n_synth, gui_flags>>
    /\ UNCHANGED <<chapter_text, file_vars>>
    /\ UNCHANGED <<text_vars, ebook_vars, doc_vars>>

\* Mutant of Collect: the loop is left after the first future, the others
\* are not waited for.
CollectBreak(k) ==
    /\ pc = "collect"
    /\ \/ /\ k \in initial_finished
          /\ initial_finished' = initial_finished \ {k}
          /\ finished_futures' = finished_futures
       \/ /\ initial_finished = {}
          /\ finished_futures # <<>>
          /\ k = Head(finished_futures)
          /\ finished_futures' = Tail(finished_futures)
          /\ initial_finished' = initial_finished
    /\ chunk_files' = CollectFragment(chunk_files, k, task[k] = "ok")
    /\ ProgressCallback(OverallProgress(chapter, ProgressCurrent(collected, k), n_chunks))
    /\ collected' = collected + 1
    /\ pc' = "combine"
    /\ UNCHANGED <<n_chapters, max_workers, keep_temp_files, temp_dir_set,
                   result, exc, chapter, chapter_files,
                   chapter_result, n_chunks, task, concat_arg, book_concat, n_synth,
                   status_log, gui_status, gui_flags>>
    /\ UNCHANGED <<chapter_text, file_vars>>
    /\ UNCHANGED <<text_vars, ebook_vars, doc_vars>>

\* convert_chapter 113-125: one iteration of the as_completed loop for the
\* future of chunk k.
Collect(k) ==
    /\ pc = "collect"
    /\ \/ /\ k \in initial_finished
          /\ initial_finished' = initial_finished \ {k}
          /\ finished_futures' = finished_futures
       \/ /\ initial_finished = {}
          /\ finished_futures # <<>>
          /\ k = Head(finished_futures)
          /\ finished_futures' = Tail(finished_futures)
          /\ initial_finished' = initial_finished
    /\ chunk_files' = CollectFragment(chunk_files, k, task[k] = "ok")
    /\ ProgressCallback(OverallProgress(chapter, ProgressCurrent(collected, k), n_chunks))
    /\ collected' = collected + 1
    /\ pc' = IF collected + 1 = n_chunks THEN "combine" ELSE "collect"
    /\ UNCHANGED <<n_chapters, max_workers, keep_temp_files, temp_dir_set,
                   result, exc, chapter, chapter_files,
                   chapter_result, n_chunks, task, concat_arg, book_concat, n_synth,
                   status_log, gui_status, gui_flags>>
    /\ UNCHANGED <<chapter_text, file_vars>>
    /\ UNCHANGED <<text_vars, ebook_vars, doc_vars>>

\* convert_chapter 127-148 and 150-152: combine the fragments (ok: the
\* concatenation utility succeeds; otherwise it raises ProcessingError), or
\* return None when there is no fragment.
ChapterCombine(ok) ==
    /\ pc = "combine"
    /\ IF chunk_files # <<>>
       THEN /\ concat_arg' = FragmentList(chunk_files)
            /\ IF ok
               THEN /\ chapter_result' = "path"
                    /\ pc' = "chapter_return"
                    /\ exc' = exc
               ELSE /\ chapter_result' = chapter_result
                    /\ exc' = [kind |-> "ProcessingError", where |-> "chapter"]
                    /\ pc' = "chapter_raise"
       ELSE /\ ok
            /\ concat_arg' = <<>>
            /\ chapter_result' = "null"
            /\ pc' = "chapter_return"
            /\ exc' = exc
    /\ NoCallback
    /\ UNCHANGED <<n_chapters, max_workers, keep_temp_files, temp_dir_set,
                   result, chapter, chapter_files,
                   n_chunks, task, initial_finished, finished_futures, collected,
                   chunk_files, book_concat, n_synth, gui_flags>>
    /\ IF chunk_files # <<>> /\ ok
       THEN /\ chapter_out_files' = chapter_out_files \cup {chapter}
            /\ frag_files' = DeleteFragments(frag_files, chunk_files, keep_temp_files)
       ELSE UNCHANGED <<chapter_out_files, frag_files>>
    /\ UNCHANGED <<chapter_text, stale_frags, tmp_dirs>>
    /\ UNCHANGED <<text_vars, ebook_vars, doc_vars>>

\* Mutant of KeepChapterFile: the file is put at the front of the list.
KeepChapterFileFront(files, i, res) ==
    IF res = "path" THEN <<i>> \o files ELSE files

\* What convert_book does with chapter_file (232-233).
KeepChapterFile(files, i, res) ==
    IF res = "path" THEN Append(files, i) ELSE files

\* convert_book 230-234: convert_chapter has returned; next loop iteration.
ChapterReturn ==
    /\ pc = "chapter_return"
    /\ chapter_files' = KeepChapterFile(chapter_files, chapter, chapter_result)
    /\ ChapterLocalsReset
    /\ chapter' = chapter + 1
    /\ pc' = IF chapter + 1 < n_chapters THEN "chapter_status" ELSE "book_combine"
    /\ NoCallback
    /\ UNCHANGED <<n_chapters, max_workers, keep_temp_files, temp_dir_set,
                   result, exc, book_concat, n_synth,
                   gui_flags>>
    /\ frag_files' = {}
    /\ stale_frags' = (stale_frags \/ frag_files # {})
    /\ UNCHANGED <<chapter_out_files, tmp_dirs>>
    /\ UNCHANGED <<text_vars, ebook_vars, doc_vars>>

\* Mutant of BookCombineStatus: the `if chapter_files` test is missing.
BookCombineAlways ==
    /\ pc = "book_combine"
    /\ StatusCallback(Msg("Combining audio files...", 0))
    /\ pc' = "book_concat"
    /\ UNCHANGED <<n_chapters, max_workers, keep_temp_files, temp_dir_set,
                   result, exc, chapter, chapter_files,
                   ChapterLocals, book_concat, n_synth, progress, gui_progress,
                   gui_flags>>
    /\ UNCHANGED file_vars
    /\ UNCHANGED <<text_vars, ebook_vars, doc_vars>>

\* convert_book 235-238 and 268-272: after the loop.
BookCombineStatus ==
    /\ pc = "book_combine"
    /\ IF chapter_files # <<>>
       THEN /\ StatusCallback(Msg("Combining audio files...", 0))
            /\ pc' = "book_concat"
            /\ result' = result
       ELSE /\ StatusCallback(Msg("No audio chapters generated", 0))
            /\ result' = "null"
            /\ pc' = "done"
    /\ UNCHANGED <<n_chapters, max_workers, keep_temp_files, temp_dir_set,
                   exc, chapter, chapter_files,
                   ChapterLocals, book_concat, n_synth, progress, gui_progress,
                   gui_flags>>
    /\ UNCHANGED file_vars
    /\ UNCHANGED <<text_vars, ebook_vars, doc_vars>>

\* convert_book 240-266: the final concatenation of the chapter files.
BookConcat(ok) ==
    /\ pc = "book_concat"
    /\ book_concat' = Append(book_concat, chapter_files)
    /\ IF ok
       THEN /\ StatusCallback(Msg("Book converted", 0))
            /\ result' = "path"
            /\ pc' = "done"
            /\ exc' = exc
       ELSE /\ UNCHANGED <<status_log, gui_status, result>>
            /\ exc' = [kind |-> "ProcessingError", where |-> "book"]
            /\ pc' = "book_raise"
    /\ UNCHANGED <<n_chapters, max_workers, keep_temp_files, temp_dir_set,
                   chapter, chapter_files, ChapterLocals,
                   n_synth, progress, gui_progress, gui_flags>>
    /\ IF ok
       THEN /\ chapter_out_files' =
                   DeleteChapterFiles(chapter_out_files, chapter_files, keep_temp_files)
            /\ tmp_dirs' = RemoveTempDir(tmp_dirs, keep_temp_files, temp_dir_set)
       ELSE UNCHANGED <<chapter_out_files, tmp_dirs>>
    /\ UNCHANGED <<frag_files, stale_frags>>
    /\ UNCHANGED <<text_vars, ebook_vars, doc_vars>>

\* Mutant of BookExcept: the exception is swallowed and None is returned.
BookExceptSwallow ==
    /\ pc \in {"chapter_raise", "book_raise"}
    /\ StatusCallback(Msg("Error", 0))
    /\ result' = "null"
    /\ pc' = "done"
    /\ UNCHANGED <<n_chapters, max_workers, keep_temp_files, temp_dir_set,
                   exc, chapter, chapter_files,
                   ChapterLocals, book_concat, n_synth, progress, gui_progress,
                   gui_flags>>
    /\ UNCHANGED file_vars
    /\ UNCHANGED <<text_vars, ebook_vars, doc_vars>>

\* convert_book 274-279: an exception of convert_chapter (wrapped in
\* ConversionError at 150-152) or of the final concatenation reaches the
\* except clause: status "Error: ...", then ConversionError is raised.
BookExcept ==
    /\ pc \in {"chapter_raise", "book_raise"}
    /\ StatusCallback(Msg("Error", 0))
    /\ result' = "raised"
    /\ pc' = "done"
    /\ UNCHANGED <<n_chapters, max_workers, keep_temp_files, temp_dir_set,
                   exc, chapter, chapter_files,
                   ChapterLocals, book_concat, n_synth, progress, gui_progress,
                   gui_flags>>
    /\ UNCHANGED file_vars
    /\ UNCHANGED <<text_vars, ebook_vars, doc_vars>>

Next ==
    \/ BookStart
    \/ ChapterStatus
    \/ ChapterTextError
    \/ \E n \in 0 .. MaxChunks : ConvertChapterBegin(n)
    \/ SingleCall
    \/ \E ok \in BOOLEAN : SingleReturn(ok)
    \/ Submit
    \/ \E k \in 0 .. (MaxChunks - 1) : StartTask(k)
    \/ \E k \in 0 .. (MaxChunks - 1), ok \in BOOLEAN : FinishTask(k, ok)
    \/ AsCompletedStart
    \/ \E k \in 0 .. (MaxChunks - 1) : Collect(k)
    \/ \E ok \in BOOLEAN : ChapterCombine(ok)
    \/ ChapterReturn
    \/ BookCombineStatus
    \/ \E ok \in BOOLEAN : BookConcat(ok)
    \/ BookExcept

Spec == Init /\ [][Next]_vars

SpecFiles == InitFiles /\ [][Next]_vars

\* -------------------------------------------------------------------- gui
\* A freshly started GUI: no conversion has been requested yet.
InitGui ==
    ConverterNew /\ ConfigDefault /\ GuiIdle /\ Library /\ pc = "idle"

\* convert 611-631: the guards pass and the conversion thread is started;
\* the UI update of 634-638 is still to come.
Convert ==
    /\ ui_pc = "idle"
    /\ ~is_converting
    /\ worker \in {"none", "ended"}
    /\ worker' = "started"
    /\ ui_pc' = "ui_update"
    /\ UNCHANGED <<conv_vars, is_converting, stop_requested, gui_status,
                   gui_progress, dialog>>
    /\ UNCHANGED <<text_vars, ebook_vars, doc_vars>>

\* convert 634-638.
ConvertUpdateUI ==
    /\ ui_pc = "ui_update"
    /\ is_converting' = TRUE
    /\ stop_requested' = FALSE
    /\ gui_status' = Msg("Converting...", 0)
    /\ ui_pc' = "idle"
    /\ UNCHANGED <<conv_vars, gui_progress, dialog, worker>>
    /\ UNCHANGED <<text_vars, ebook_vars, doc_vars>>

\* The locals of a convert_book call and the callback history of the call.
BookLocalsReset ==
    /\ result' = "none"
    /\ exc' = NoExc
    /\ chapter' = 0
    /\ chapter_files' = <<>>
    /\ ChapterLocalsReset
    /\ book_concat' = <<>>
    /\ n_synth' = 0
    /\ status_log' = <<>>
    /\ progress' = ZeroProgress
    /\ frag_files' = {}
    /\ stale_frags' = FALSE
    /\ chapter_out_files' = {}
    /\ tmp_dirs' = 0

\* conversion_worker 642-698: load the ebook, get the engine, create a new
\* BookConverter and call convert_book; ok = FALSE: Ebook() or get_tts_engine
\* raises.
WorkerSetup(ok) ==
    /\ worker = "started"
    /\ IF ok
       THEN /\ worker' = "converting"
            /\ pc' = "book_start"
       ELSE /\ worker' = "failed"
            /\ pc' = pc
    /\ UNCHANGED <<n_chapters, max_workers, keep_temp_files, temp_dir_set,
                   result, exc, chapter, chapter_files,
                   ChapterLocals, book_concat, n_synth, status_log, progress,
                   is_converting, stop_requested, gui_status,
                   gui_progress, dialog, ui_pc>>
    /\ UNCHANGED file_vars
    /\ UNCHANGED <<text_vars, ebook_vars, doc_vars>>

\* conversion_worker 700-704: convert_book returned (a path or None).
WorkerAfterConvert ==
    /\ worker = "converting"
    /\ pc = "done"
    /\ result \in {"path", "null"}
    /\ gui_status' = Msg("Conversion completed", 0)
    /\ dialog' = IF ~stop_requested THEN "info" ELSE dialog
    /\ worker' = "finally"
    /\ pc' = "idle"
    /\ BookLocalsReset
    /\ UNCHANGED <<n_chapters, max_workers, keep_temp_files, temp_dir_set,
                   gui_progress, is_converting,
                   stop_requested, ui_pc>>
    /\ UNCHANGED <<text_vars, ebook_vars, doc_vars>>

\* conversion_worker 706-716: convert_book (or the setup) raised.
WorkerExcept ==
    /\ \/ worker = "converting" /\ pc = "done" /\ result = "raised"
       \/ worker = "failed"
    /\ IF ~stop_requested
       THEN /\ dialog' = "error"
            /\ gui_status' = Msg("Error", 0)
       ELSE UNCHANGED <<dialog, gui_status>>
    /\ worker' = "finally"
    /\ pc' = "idle"
    /\ BookLocalsReset
    /\ UNCHANGED <<n_chapters, max_workers, keep_temp_files, temp_dir_set,
                   gui_progress, is_converting,
                   stop_requested, ui_pc>>
    /\ UNCHANGED <<text_vars, ebook_vars, doc_vars>>

\* conversion_worker 718-726 (taken as one step).
WorkerFinally ==
    /\ worker = "finally"
    /\ is_converting' = FALSE
    /\ IF stop_requested
       THEN /\ gui_status' = Msg("Conversion stopped", 0)
            /\ stop_requested' = FALSE
       ELSE UNCHANGED <<gui_status, stop_requested>>
    /\ worker' = "ended"
    /\ UNCHANGED <<conv_vars, gui_progress, dialog, ui_pc>>
    /\ UNCHANGED <<text_vars, ebook_vars, doc_vars>>

\* stop_conversion 728-741: tts_engine.stop() does not interrupt a
\* save_to_file call (tts_engines.py 76-78, 259-263).
StopConversion ==
    /\ ui_pc = "idle"
    /\ is_converting
    /\ stop_requested' = TRUE
    /\ gui_status' = Msg("Stopping conversion...", 0)
    /\ UNCHANGED <<conv_vars, is_converting, gui_progress, dialog, worker, ui_pc>>
    /\ UNCHANGED <<text_vars, ebook_vars, doc_vars>>

NextGui ==
    \/ Next
    \/ Convert
    \/ ConvertUpdateUI
    \/ \E ok \in BOOLEAN : WorkerSetup(ok)
    \/ WorkerAfterConvert
    \/ WorkerExcept
    \/ WorkerFinally
    \/ StopConversion

SpecGui == InitGui /\ [][NextGui]_vars

\* -------------------------------------------------------------- text_utils
\* Texts are sequences of one-character strings over a small alphabet with one
\* character of each kind the code distinguishes:
\*   "a" lower-case letter, "A" upper-case letter, "." sentence terminator,
\*   " " whitespace, "&" the ellipsis U+2026, "^" a control character.
Alphabet == {"a", "A", ".", " ", "&", "^"}
Whitespace == {" "}
Upper == {"A"}
Lower == {"a"}
WordChars == Upper \cup Lower
Terminators == {".", "?", "!"}
ControlChars == {"^"}
Texts == UNION {[1 .. n -> Alphabet] : n \in 0 .. MaxTextLen}

\* re.sub(r'\s+', ' ', text)
RECURSIVE CollapseWhitespace(_)
CollapseWhitespace(t) ==
    IF t = <<>> THEN <<>>
    ELSE IF Head(t) \in Whitespace
         THEN IF Len(t) >= 2 /\ t[2] \in Whitespace
              THEN CollapseWhitespace(Tail(t))
              ELSE <<" ">> \o CollapseWhitespace(Tail(t))
         ELSE <<Head(t)>> \o CollapseWhitespace(Tail(t))

\* text.replace('…', '...')
RECURSIVE ReplaceUnicode(_)
ReplaceUnicode(t) ==
    IF t = <<>> THEN <<>>
    ELSE (IF Head(t) = "&" THEN <<".", ".", ".">> ELSE <<Head(t)>>)
         \o ReplaceUnicode(Tail(t))

\* re.sub(r'[\x00-\x08\x0b\x0c\x0e-\x1f\x7f-\x9f]', '', text)
RemoveControl(t) == SelectSeq(t, LAMBDA c : c \notin ControlChars)

\* str.strip()
RECURSIVE LStrip(_)
LStrip(t) ==
    IF t # <<>> /\ Head(t) \in Whitespace THEN LStrip(Tail(t)) ELSE t
RECURSIVE RStrip(_)
RStrip(t) ==
    IF t # <<>> /\ t[Len(t)] \in Whitespace
    THEN RStrip(SubSeq(t, 1, Len(t) - 1)) ELSE t
Strip(t) == LStrip(RStrip(t))

\* text_utils.clean_text
clean_text(t) ==
    IF t = <<>> THEN <<>>
    ELSE Strip(RemoveControl(ReplaceUnicode(CollapseWhitespace(t))))

\* The pattern of split_into_sentences matches the whitespace character at
\* position i: (?<!\w\.\w.)(?<![A-Z][a-z]\.)(?<=\.|\?|\!)\s
SentenceBreak(t, i) ==
    /\ t[i] \in Whitespace
    /\ i >= 2
    /\ t[i - 1] \in Terminators
    /\ ~(i >= 5 /\ t[i - 4] \in WordChars /\ t[i - 3] = "."
                /\ t[i - 2] \in WordChars)
    /\ ~(i >= 4 /\ t[i - 3] \in Upper /\ t[i - 2] \in Lower /\ t[i - 1] = ".")

\* re.split(pattern, text): the pieces between the matches, from position i
\* on, the current piece starting at position from.
RECURSIVE ReSplit(_, _, _)
ReSplit(t, from, i) ==
    IF i > Len(t) THEN <<SubSeq(t, from, Len(t))>>
    ELSE IF SentenceBreak(t, i)
         THEN <<SubSeq(t, from, i - 1)>> \o ReSplit(t, i + 1, i + 1)
         ELSE ReSplit(t, from, i + 1)

\* [s.strip() for s in sentences if s.strip()]
StripNonEmpty(pieces) ==
    SelectSeq([k \in DOMAIN pieces |-> Strip(pieces[k])], LAMBDA s : s # <<>>)

\* text_utils.split_into_sentences
split_into_sentences(t) ==
    IF t = <<>> THEN <<>> ELSE StripNonEmpty(ReSplit(t, 1, 1))

\* str.split(): the maximal runs of non-whitespace characters.
RECURSIVE Words(_)
Words(t) ==
    LET u == LStrip(t) IN
    IF u = <<>> THEN <<>>
    ELSE LET n == CHOOSE m \in 1 .. Len(u) :
                    /\ \A k \in 1 .. m : u[k] \notin Whitespace
                    /\ m = Len(u) \/ u[m + 1] \in Whitespace
         IN <<SubSeq(u, 1, n)>> \o Words(SubSeq(u, n + 1, Len(u)))

\* " ".join(words)
RECURSIVE Join(_)
Join(words) ==
    IF words = <<>> THEN <<>>
    ELSE IF Len(words) = 1 THEN words[1]
    ELSE words[1] \o <<" ">> \o Join(Tail(words))

Min(a, b) == IF a <= b THEN a ELSE b

\* words[-min(len(words), overlap):]  (a slice from -0 is the whole list)
LastWords(words, n) ==
    LET m == Min(Len(words), n) IN
    IF m = 0 THEN words ELSE SubSeq(words, Len(words) - m + 1, Len(words))

\* Mutant of StartChunk: the sentence that did not fit is dropped.
StartChunkSeedOnly(overlap_text, sentence) == overlap_text

\* current_chunk = overlap_text + " " + sentence
StartChunk(overlap_text, sentence) == overlap_text \o <<" ">> \o sentence

\* split_text_into_chunks 86-90: adding a sentence to the current chunk.
AddSentence(current_chunk, sentence) ==
    IF current_chunk # <<>> THEN current_chunk \o <<" ">> \o sentence
    ELSE sentence

\* Mutant of ChunkLoop: the size test looks at the sentence alone, not at
\* the current chunk it would be added to.
RECURSIVE ChunkLoopSentenceOnly(_, _, _, _, _, _, _)
ChunkLoopSentenceOnly(sentences, out, out_seeds, current_chunk, seed, size, n) ==
    IF sentences = <<>>
    THEN IF Strip(current_chunk) # <<>>
         THEN [chunks |-> Append(out, Strip(current_chunk)),
               seeds |-> Append(out_seeds, seed)]
         ELSE [chunks |-> out, seeds |-> out_seeds]
    ELSE LET sentence == Head(sentences) IN
         IF Len(sentence) > size
         THEN LET overlap_text == Join(LastWords(Words(current_chunk), n)) IN
              ChunkLoopSentenceOnly(Tail(sentences),
                        Append(out, Strip(current_chunk)),
                        Append(out_seeds, seed),
                        StartChunk(overlap_text, sentence), overlap_text,
                        size, n)
         ELSE ChunkLoopSentenceOnly(Tail(sentences), out, out_seeds,
                        AddSentence(current_chunk, sentence), seed, size, n)

\* split_text_into_chunks 72-94: the loop over the sentences and the final
\* chunk. Besides the chunks the result records, for every chunk, the
\* overlap_text its current_chunk was started with.
RECURSIVE ChunkLoop(_, _, _, _, _, _, _)
ChunkLoop(sentences, out, out_seeds, current_chunk, seed, size, n) ==
    IF sentences = <<>>
    THEN IF Strip(current_chunk) # <<>>
         THEN [chunks |-> Append(out, Strip(current_chunk)),
               seeds |-> Append(out_seeds, seed)]
         ELSE [chunks |-> out, seeds |-> out_seeds]
    ELSE LET sentence == Head(sentences) IN
         IF Len(current_chunk) + Len(sentence) > size
         THEN LET overlap_text == Join(LastWords(Words(current_chunk), n)) IN
              ChunkLoop(Tail(sentences), Append(out, Strip(current_chunk)),
                        Append(out_seeds, seed),
                        StartChunk(overlap_text, sentence), overlap_text,
                        size, n)
         ELSE ChunkLoop(Tail(sentences), out, out_seeds,
                        AddSentence(current_chunk, sentence), seed, size, n)

\* text_utils.split_text_into_chunks
split_text_into_chunks(t, size, n) ==
    IF t = <<>> THEN [chunks |-> <<>>, seeds |-> <<>>]
    ELSE LET cleaned == clean_text(t) IN
         IF Len(cleaned) <= size
         THEN [chunks |-> <<cleaned>>, seeds |-> << <<>> >>]
         ELSE ChunkLoop(split_into_sentences(cleaned), <<>>, <<>>, <<>>, <<>>,
                        size, n)

\* The converter and the GUI stay as constructed while a library function is
\* examined on its own.
ConverterUnused ==
    /\ ConverterNew
    /\ n_chapters = 0
    /\ max_workers = 1
    /\ ConfigDefault
    /\ GuiIdle
    /\ pc = "idle"

\* A call of split_text_into_chunks with any text and any parameters.
InitText ==
    /\ ConverterUnused
    /\ EbookNew
    /\ processor_chapters = 0
    /\ DocIdle
    /\ text \in Texts
    /\ chunk_size \in 1 .. MaxChunkSize
    /\ overlap \in 0 .. MaxOverlap
    /\ chunks = <<>>
    /\ seeds = <<>>
    /\ text_pc = "call"

SplitTextIntoChunks ==
    /\ text_pc = "call"
    /\ LET r == split_text_into_chunks(text, chunk_size, overlap) IN
        /\ chunks' = r.chunks
        /\ seeds' = r.seeds
    /\ text_pc' = "done"
    /\ UNCHANGED <<text, chunk_size, overlap>>
    /\ UNCHANGED <<conv_vars, gui_vars, ebook_vars, doc_vars>>

NextText == SplitTextIntoChunks

SpecText == InitText /\ [][NextText]_vars

\* ------------------------------------------------------------------ ebook
\* An Ebook whose processor finds any number of chapters, none included.
InitEbook ==
    /\ ConverterUnused
    /\ TextIdle
    /\ EbookNew
    /\ DocIdle
    /\ processor_chapters \in 0 .. MaxChapters

Called(op, out) == [op |-> op, out |-> out]

\* Ebook.get_chapters 89-95: `if not self.chapters` asks the processor; ok
\* tells whether processor.get_chapters returns its list or raises.
LoadChapters(ok) ==
    IF chapters = 0
    THEN IF ok
         THEN /\ chapters' = processor_chapters
              /\ discoveries' = discoveries + 1
         ELSE UNCHANGED <<chapters, discoveries>>
    ELSE /\ ok
         /\ UNCHANGED <<chapters, discoveries>>

\* get_chapters raises FileError exactly when the processor was asked and
\* raised.
LoadRaises(ok) == chapters = 0 /\ ~ok

\* Ebook.get_chapters 82-97
GetChapters(ok) ==
    /\ calls < MaxCalls
    /\ calls' = calls + 1
    /\ LoadChapters(ok)
    /\ last_call' = Called("get_chapters",
                           IF LoadRaises(ok) THEN "FileError" ELSE "list")
    /\ UNCHANGED <<processor_chapters, conv_vars, gui_vars, text_vars, doc_vars>>

\* Ebook.get_chapter_text 99-122; text_ok: processor.get_chapter_text returns.
GetChapterText(chapter_index, ok, text_ok) ==
    /\ calls < MaxCalls
    /\ calls' = calls + 1
    /\ LoadChapters(ok)
    /\ last_call' = Called("get_chapter_text",
                           IF LoadRaises(ok) THEN "FileError"
                           ELSE IF chapter_index >= chapters' THEN "IndexError"
                           ELSE IF text_ok THEN "text" ELSE "FileError")
    /\ UNCHANGED <<processor_chapters, conv_vars, gui_vars, text_vars, doc_vars>>

\* Ebook.get_chapter_title 124-147; title_ok: processor.get_chapter_title
\* returns, otherwise the title falls back to "Chapter N".
GetChapterTitle(chapter_index, ok, title_ok) ==
    /\ calls < MaxCalls
    /\ calls' = calls + 1
    /\ LoadChapters(ok)
    /\ last_call' = Called("get_chapter_title",
                           IF LoadRaises(ok) THEN "FileError"
                           ELSE IF chapter_index >= chapters' THEN "IndexError"
                           ELSE IF title_ok THEN "title" ELSE "fallback")
    /\ UNCHANGED <<processor_chapters, conv_vars, gui_vars, text_vars, doc_vars>>

NextEbook ==
    \/ \E ok \in BOOLEAN : GetChapters(ok)
    \/ \E i \in 0 .. MaxChapters, ok \in BOOLEAN, text_ok \in BOOLEAN :
          GetChapterText(i, ok, text_ok)
    \/ \E i \in 0 .. MaxChapters, ok \in BOOLEAN, title_ok \in BOOLEAN :
          GetChapterTitle(i, ok, title_ok)

SpecEbook == InitEbook /\ [][NextEbook]_vars

\* --------------------------------------------------------------- metadata
\* Ebook.__init__: _load_processor, which runs the processor's metadata
\* extraction, and then _load_metadata.
Formats == {"epub", "pdf", "txt"}
Fields == {"title", "author", "language"}
\* How a field appears in the document: with a value, not at all, or with an
\* empty value.
SourceKinds == {"present", "absent", "empty"}

\* What the except branches and the text processor store.
DefaultMetadata == [title |-> "basename", author |-> "Unknown", language |-> "en"]

\* EPUBProcessor._extract_metadata: get_metadata gives a list, empty when the
\* field is absent; a non-empty list is replaced by its first value, an empty
\* one by None.
EpubField(kind) ==
    CASE kind = "present" -> "value"
      [] kind = "empty" -> ""
      [] kind = "absent" -> "None"

EpubMetadata(src) == [f \in Fields |-> EpubField(src[f])]

\* PDFProcessor._extract_metadata: pdf_metadata.get(key), and every value
\* that is not truthy replaced by None; there is no 'language' key.
PdfField(kind) == IF kind = "present" THEN "value" ELSE "None"

PdfMetadata(src) ==
    [title |-> PdfField(src.title), author |-> PdfField(src.author),
     language |-> "missing"]

\* The else and except branches of PDFProcessor._extract_metadata.
PdfDefaultMetadata == [title |-> "basename", author |-> "Unknown", language |-> "missing"]

\* dict.get(key, default): the default only when the key is missing.
Get(d, key, default) == IF d[key] = "missing" THEN default ELSE d[key]

\* A document of any format; a text file carries no metadata fields.
InitMeta ==
    /\ ConverterUnused
    /\ TextIdle
    /\ EbookNew
    /\ processor_chapters = 0
    /\ format \in Formats
    /\ meta_src \in [Fields -> SourceKinds]
    /\ format = "txt" => meta_src = [f \in Fields |-> "absent"]
    /\ metadata = NoMeta
    /\ title = "None"
    /\ author = "None"
    /\ language = "None"
    /\ AccessIdle
    /\ TxtIdle
    /\ PdfIdle
    /\ doc_pc = "new"

\* _load_processor: the processor's constructor raises and Ebook.__init__
\* raises FileError; no Ebook is constructed.
LoadProcessorRaises ==
    /\ doc_pc = "new"
    /\ doc_pc' = "failed"
    /\ UNCHANGED <<format, meta_src, metadata, title, author, language>>
    /\ UNCHANGED <<access_vars, txt_vars, pdf_vars>>
    /\ UNCHANGED <<conv_vars, gui_vars, text_vars, ebook_vars>>

\* _load_processor: the processor loads the document and sets its metadata.
\* how: "ok"; "empty_info", a PDF whose information dictionary is empty;
\* "raises", the extraction raises and the except branch stores the defaults.
LoadProcessor(how) ==
    /\ doc_pc = "new"
    /\ how = "empty_info"
          => format = "pdf" /\ meta_src.title = "absent" /\ meta_src.author = "absent"
    /\ how = "raises" => format # "txt"
    /\ metadata' =
          CASE format = "txt" -> DefaultMetadata
            [] format = "epub" ->
                 IF how = "raises" THEN DefaultMetadata ELSE EpubMetadata(meta_src)
            [] format = "pdf" ->
                 IF how = "ok" THEN PdfMetadata(meta_src) ELSE PdfDefaultMetadata
    /\ doc_pc' = "extracted"
    /\ UNCHANGED <<format, meta_src, title, author, language>>
    /\ UNCHANGED <<access_vars, txt_vars, pdf_vars>>
    /\ UNCHANGED <<conv_vars, gui_vars, text_vars, ebook_vars>>

\* Ebook._load_metadata
LoadMetadata ==
    /\ doc_pc = "extracted"
    /\ title' = Get(metadata, "title", "basename")
    /\ author' = Get(metadata, "author", "Unknown")
    /\ language' = Get(metadata, "language", "en")
    /\ doc_pc' = "loaded"
    /\ UNCHANGED <<format, meta_src, metadata>>
    /\ UNCHANGED <<access_vars, txt_vars, pdf_vars>>
    /\ UNCHANGED <<conv_vars, gui_vars, text_vars, ebook_vars>>

NextMeta ==
    \/ LoadProcessorRaises
    \/ \E how \in {"ok", "empty_info", "raises"} : LoadProcessor(how)
    \/ LoadMetadata

SpecMeta == InitMeta /\ [][NextMeta]_vars

\* ------------------------------------------------------- chapter access
\* get_chapter_text and get_chapter_title of the three processors and of the
\* Ebook, with any index, negative ones included.
Indexes == -1 .. MaxChapters

Returned(val) == [kind |-> "str", val |-> val]
Raised(kind, cause) == [kind |-> kind, val |-> cause]

\* `chapter_index < 0 or chapter_index >= len(chapters)`
OutOfRangeNoNegative(chapter_index, n) == chapter_index >= n
OutOfRange(chapter_index, n) == chapter_index < 0 \/ chapter_index >= n

\* chapters[chapter_index] of a Python list of n items: IndexError unless
\* -n <= chapter_index < n.
ListIndexError(chapter_index, n) == chapter_index < -n \/ chapter_index >= n

\* The item a Python list index names, counted from 1.
ListItem(chapter_index, n) ==
    IF chapter_index < 0 THEN n + chapter_index + 1 ELSE chapter_index + 1

\* EPUBProcessor.get_chapters names ebooklib.ITEM_DOCUMENT where only
\* `epub` is imported: the test of line 130 raises NameError for the first
\* spine item the book resolves, and the except branch raises
\* ProcessingError. The other processors return self.chapters.
GetChaptersRaises == format = "epub" /\ processor_chapters > 0

\* The 'title' a processor can hold for a chapter: a text, the empty string,
\* or the "Chapter N" default (PDFProcessor._process_outline: item.get('title',
\* default)); the text processor stores a stripped marker line, "Section k" or
\* "Full Text".
StoredTitles ==
    CASE format = "pdf" -> {"title", "", "Chapter N"}
      [] format = "txt" -> {"title"}
      [] format = "epub" -> {"none"}

\* processor.get_chapter_text; extracted: what reading the chapter gives, a
\* text, the empty string, or "raises".
ProcessorChapterText(chapter_index, extracted) ==
    IF format = "epub" /\ GetChaptersRaises
    THEN Raised("ProcessingError", "discovery")
    ELSE IF OutOfRange(chapter_index, processor_chapters)
         THEN Raised("ProcessingError", "index")
         ELSE IF ListIndexError(chapter_index, processor_chapters)
              THEN Raised("ProcessingError", "index")
              ELSE IF extracted = "raises"
                   THEN Raised("ProcessingError", "extraction")
                   ELSE Returned(extracted)

\* processor.get_chapter_title: every exception gives "Chapter N".
ProcessorChapterTitle(chapter_index) ==
    IF format = "epub" /\ GetChaptersRaises
    THEN Returned("Chapter N")
    ELSE IF OutOfRange(chapter_index, processor_chapters)
         THEN Returned("Chapter N")
         ELSE IF ListIndexError(chapter_index, processor_chapters)
              THEN Returned("Chapter N")
              ELSE Returned(chapter_titles[ListItem(chapter_index, processor_chapters)])

\* The part of Ebook.get_chapter_text / get_chapter_title after get_chapters
\* returned n chapters: the range check, then the processor's answer.
EbookChapterText(chapter_index, n, extracted) ==
    IF OutOfRange(chapter_index, n)
    THEN Raised("IndexError", "index")
    ELSE IF ProcessorChapterText(chapter_index, extracted).kind = "str"
         THEN ProcessorChapterText(chapter_index, extracted)
         ELSE Raised("FileError", ProcessorChapterText(chapter_index, extracted).val)

EbookChapterTitle(chapter_index, n) ==
    IF OutOfRange(chapter_index, n)
    THEN Raised("IndexError", "index")
    ELSE ProcessorChapterTitle(chapter_index)

Accessed(level, op, chapter_index, out) ==
    [level |-> level, op |-> op, index |-> chapter_index, out |-> out]

\* A loaded document of any format with its chapters and their titles.
InitAccess ==
    /\ ConverterUnused
    /\ TextIdle
    /\ EbookNew
    /\ format \in Formats
    /\ processor_chapters \in 0 .. MaxChapters
    /\ chapter_titles \in [1 .. processor_chapters -> StoredTitles]
    /\ access = NoAccess
    /\ MetaIdle
    /\ TxtIdle
    /\ PdfIdle
    /\ doc_pc = "loaded"

\* processor.get_chapter_text(chapter_index), called directly
ProcessorGetChapterText(chapter_index, extracted) ==
    /\ calls < MaxCalls
    /\ calls' = calls + 1
    /\ access' = Accessed("processor", "get_chapter_text", chapter_index,
                          ProcessorChapterText(chapter_index, extracted))
    /\ UNCHANGED <<format, chapter_titles, meta_vars, txt_vars, pdf_vars, doc_pc>>
    /\ UNCHANGED <<processor_chapters, chapters, discoveries, last_call>>
    /\ UNCHANGED <<conv_vars, gui_vars, text_vars>>

\* processor.get_chapter_title(chapter_index), called directly
ProcessorGetChapterTitle(chapter_index) ==
    /\ calls < MaxCalls
    /\ calls' = calls + 1
    /\ access' = Accessed("processor", "get_chapter_title", chapter_index,
                          ProcessorChapterTitle(chapter_index))
    /\ UNCHANGED <<format, chapter_titles, meta_vars, txt_vars, pdf_vars, doc_pc>>
    /\ UNCHANGED <<processor_chapters, chapters, discoveries, last_call>>
    /\ UNCHANGED <<conv_vars, gui_vars, text_vars>>

\* Ebook.get_chapter_text(chapter_index) 99-122
EbookGetChapterText(chapter_index, extracted) ==
    /\ calls < MaxCalls
    /\ calls' = calls + 1
    /\ LoadChapters(~GetChaptersRaises)
    /\ access' = Accessed("ebook", "get_chapter_text", chapter_index,
                          IF LoadRaises(~GetChaptersRaises)
                          THEN Raised("FileError", "discovery")
                          ELSE EbookChapterText(chapter_index, chapters', extracted))
    /\ UNCHANGED <<format, chapter_titles, meta_vars, txt_vars, pdf_vars, doc_pc>>
    /\ UNCHANGED <<processor_chapters, last_call>>
    /\ UNCHANGED <<conv_vars, gui_vars, text_vars>>

\* Ebook.get_chapter_title(chapter_index) 124-147
EbookGetChapterTitle(chapter_index) ==
    /\ calls < MaxCalls
    /\ calls' = calls + 1
    /\ LoadChapters(~GetChaptersRaises)
    /\ access' = Accessed("ebook", "get_chapter_title", chapter_index,
                          IF LoadRaises(~GetChaptersRaises)
                          THEN Raised("FileError", "discovery")
                          ELSE EbookChapterTitle(chapter_index, chapters'))
    /\ UNCHANGED <<format, chapter_titles, meta_vars, txt_vars, pdf_vars, doc_pc>>
    /\ UNCHANGED <<processor_chapters, last_call>>
    /\ UNCHANGED <<conv_vars, gui_vars, text_vars>>

NextAccess ==
    \/ \E i \in Indexes, extracted \in {"text", "", "raises"} :
          ProcessorGetChapterText(i, extracted)
    \/ \E i \in Indexes : ProcessorGetChapterTitle(i)
    \/ \E i \in Indexes, extracted \in {"text", "", "raises"} :
          EbookGetChapterText(i, extracted)
    \/ \E i \in Indexes : EbookGetChapterTitle(i)

SpecAccess == InitAccess /\ [][NextAccess]_vars

\* ------------------------------------------------------------ pdf outline
\* PDFProcessor._extract_chapters over an outline of nested entries. An
\* outline is a list of items; an item is a dict (one entry) or a list
\* [parent, children]: page is the entry's 'page_number', nested tells the
\* list form, children is its list of child items.
None == -2

RECURSIVE Size(_)
\* The number of entries of a list of items, nested ones included.
Size(items) ==
    IF items = <<>> THEN 0
    ELSE 1 + Size(Head(items).children) + Size(Tail(items))

RECURSIVE Outlines(_, _)
\* The items of at most n entries with page numbers in pages.
Items(n, pages) ==
    IF n = 0 THEN {}
    ELSE {[page |-> p, nested |-> FALSE, children |-> <<>>] : p \in pages}
         \cup {[page |-> p, nested |-> TRUE, children |-> c] :
                  p \in pages, c \in Outlines(n - 1, pages)}

\* The outlines of at most n entries.
Outlines(n, pages) ==
    {<<>>} \cup UNION {{<<item>> \o rest :
                           rest \in Outlines(n - 1 - Size(item.children), pages)} :
                       item \in Items(n, pages)}

\* _process_outline 168-174, with only the unset page_end values filled.
SetPageEndsUnsetOnly(chs, total_pages) ==
    [i \in 1 .. Len(chs) |->
        IF chs[i].page_end # None THEN chs[i]
        ELSE IF i < Len(chs)
             THEN [chs[i] EXCEPT !.page_end = chs[i + 1].page_start - 1]
             ELSE [chs[i] EXCEPT !.page_end = total_pages - 1]]

\* _process_outline 168-174: every chapter but the last ends before the
\* next one starts; the last one, if its page_end is still None, ends with
\* the final page.
SetPageEnds(chs, total_pages) ==
    [i \in 1 .. Len(chs) |->
        IF i < Len(chs)
        THEN [chs[i] EXCEPT !.page_end = chs[i + 1].page_start - 1]
        ELSE IF chs[i].page_end = None
             THEN [chs[i] EXCEPT !.page_end = total_pages - 1]
             ELSE chs[i]]

RECURSIVE ProcessItems(_, _, _, _, _)
RECURSIVE ProcessOutline(_, _, _, _)
\* The `for item in outline` loop of _process_outline from item k on.
ProcessItems(items, k, level, chs, total_pages) ==
    IF k > Len(items) THEN chs
    ELSE LET added == Append(chs, [page_start |-> items[k].page,
                                   page_end |-> None,
                                   level |-> level])
             after == IF items[k].nested
                      THEN ProcessOutline(items[k].children, level + 1, added, total_pages)
                      ELSE added
         IN  ProcessItems(items, k + 1, level, after, total_pages)

\* PDFProcessor._process_outline(outline, level) on self.chapters = chs
ProcessOutline(items, level, chs, total_pages) ==
    SetPageEnds(ProcessItems(items, 1, level, chs, total_pages), total_pages)

\* PDFProcessor._create_default_chapters: chapters of chapter_size pages.
DefaultChapterSize(total_pages) ==
    IF total_pages <= 10 THEN 1 ELSE IF total_pages <= 50 THEN 5 ELSE 10

CreateDefaultChapters(total_pages) ==
    LET chapter_size == DefaultChapterSize(total_pages)
        count == (total_pages + chapter_size - 1) \div chapter_size
    IN  [j \in 1 .. count |->
            [page_start |-> (j - 1) * chapter_size,
             page_end |-> Min((j - 1) * chapter_size + chapter_size - 1, total_pages - 1),
             level |-> 0]]

\* A PDF of 1..MaxPages pages with any outline of at most MaxOutline entries.
InitPdf ==
    /\ ConverterUnused
    /\ TextIdle
    /\ EbookNew
    /\ processor_chapters = 0
    /\ format = "pdf"
    /\ MetaIdle
    /\ AccessIdle
    /\ TxtIdle
    /\ n_pages \in 1 .. MaxPages
    /\ outline \in Outlines(MaxOutline, 0 .. (n_pages - 1))
    /\ pdf_chapters = <<>>
    /\ doc_pc = "new"

\* PDFProcessor._extract_chapters 104-121
PdfExtractChapters ==
    /\ doc_pc = "new"
    /\ pdf_chapters' = IF outline # <<>>
                       THEN ProcessOutline(outline, 0, pdf_chapters, n_pages)
                       ELSE CreateDefaultChapters(n_pages)
    /\ doc_pc' = "loaded"
    /\ UNCHANGED <<format, meta_vars, access_vars, txt_vars, outline, n_pages>>
    /\ UNCHANGED <<conv_vars, gui_vars, text_vars, ebook_vars>>

NextPdf == PdfExtractChapters

SpecPdf == InitPdf /\ [][NextPdf]_vars

\* ---------------------------------------------------------- text chapters
\* TextProcessor._extract_chapters over the lines of the text. A line is
\* known by how it meets the chapter markers:
\*   "start"     its stripped lower-case form starts with a marker;
\*   "short_in"  it holds a marker elsewhere and strips to under 50 characters;
\*   "long_in"   it holds a marker elsewhere and strips to 50 or more;
\*   "plain"     it holds no marker and is not blank;
\*   "blank"     it cleans to the empty string.
LineKinds == {"start", "short_in", "long_in", "plain", "blank"}

\* The test of lines 84-90.
IsMarkerStartOnly(kind) == kind = "start"
IsMarker(kind) == kind \in {"start", "short_in"}

RECURSIVE ChapterIndices(_, _)
\* chapter_indices 78-90: the 0-based indexes of the marker lines from
\* line i on, ascending.
ChapterIndices(ls, i) ==
    IF i >= Len(ls) THEN <<>>
    ELSE (IF IsMarker(ls[i + 1]) THEN <<i>> ELSE <<>>) \o ChapterIndices(ls, i + 1)

\* 98-113: one chapter for each marker line.
MarkerChapters(ls) ==
    LET chapter_indices == ChapterIndices(ls, 0)
    IN  [i \in 1 .. Len(chapter_indices) |->
            [title |-> <<"line", chapter_indices[i]>>,
             start_idx |-> chapter_indices[i],
             end_idx |-> IF i < Len(chapter_indices)
                         THEN chapter_indices[i + 1] - 1
                         ELSE Len(ls) - 1,
             is_sentence_index |-> FALSE,
             is_full_text |-> FALSE]]

\* chapter_size 130-138, with the middle tier left out.
DefaultSizeTwoTiers(total) == IF total <= 50 THEN total ELSE 100

\* chapter_size 130-138
DefaultSize(total) ==
    IF total <= 50 THEN total ELSE IF total <= 200 THEN 50 ELSE 100

\* _create_default_chapters 121-163; range(0, 0, 0) raises ValueError for a
\* text without sentences and the except branch stores the full-text chapter.
DefaultChapters(total) ==
    LET chapter_size == DefaultSize(total)
    IN  IF chapter_size = 0
        THEN <<[title |-> <<"Full Text", 0>>, start_idx |-> 0, end_idx |-> 0,
                is_sentence_index |-> FALSE, is_full_text |-> TRUE]>>
        ELSE [j \in 1 .. ((total + chapter_size - 1) \div chapter_size) |->
                [title |-> <<"Section", j>>,
                 start_idx |-> (j - 1) * chapter_size,
                 end_idx |-> Min((j - 1) * chapter_size + chapter_size - 1, total - 1),
                 is_sentence_index |-> TRUE,
                 is_full_text |-> FALSE]]

\* The sentence counts a text of these lines can have: none when every line
\* is blank, any positive number otherwise.
SentenceCounts(ls) ==
    IF \A i \in DOMAIN ls : ls[i] = "blank" THEN {0} ELSE 1 .. MaxSentences

\* TextProcessor.get_chapter_text 201-230 for a chapter of the list: "text"
\* or the empty string.
TxtChapterText(ch, ls, total) ==
    IF ch.is_full_text
    THEN IF \A i \in DOMAIN ls : ls[i] = "blank" THEN "" ELSE "text"
    ELSE IF ch.is_sentence_index
         THEN IF ch.start_idx < 0 \/ ch.end_idx >= total
              THEN ""
              ELSE IF ch.start_idx <= ch.end_idx THEN "text" ELSE ""
         ELSE IF ch.start_idx < 0 \/ ch.end_idx >= Len(ls)
              THEN ""
              ELSE IF \E i \in ch.start_idx .. ch.end_idx : ls[i + 1] # "blank"
                   THEN "text" ELSE ""

\* A text file of 1..MaxLines lines.
InitTxt ==
    /\ ConverterUnused
    /\ TextIdle
    /\ EbookNew
    /\ processor_chapters = 0
    /\ format = "txt"
    /\ MetaIdle
    /\ AccessIdle
    /\ PdfIdle
    /\ lines \in UNION {[1 .. n -> LineKinds] : n \in 1 .. MaxLines}
    /\ total_sentences = 0
    /\ txt_chapters = <<>>
    /\ doc_pc = "new"

\* TextProcessor._extract_chapters 65-119; n is the number of sentences
\* split_into_sentences finds when no line is a marker.
TxtExtractChapters(n) ==
    /\ doc_pc = "new"
    /\ IF ChapterIndices(lines, 0) = <<>>
       THEN /\ n \in SentenceCounts(lines)
            /\ total_sentences' = n
            /\ txt_chapters' = DefaultChapters(n)
       ELSE /\ n = 0
            /\ total_sentences' = total_sentences
            /\ txt_chapters' = MarkerChapters(lines)
    /\ doc_pc' = "loaded"
    /\ UNCHANGED <<format, meta_vars, access_vars, pdf_vars, lines>>
    /\ UNCHANGED <<conv_vars, gui_vars, text_vars, ebook_vars>>

NextTxt == \E n \in 0 .. MaxSentences : TxtExtractChapters(n)

SpecTxt == InitTxt /\ [][NextTxt]_vars

\* ------------------------------------------------------------ properties
Ascending(s) == \A a, b \in 1 .. Len(s) : a < b => s[a] < s[b]
Last(s) == s[Len(s)]

\* C1: in convert_chapter with two or more chunks, the fragment list handed
\* to combine_audio_files is in strictly ascending chunk-index order,
\* whatever the completion order of the chunk tasks.
C1_FragmentsInIndexOrder == Ascending(concat_arg)

\* C2: a synthesis failure of a single chunk never makes convert_chapter
\* raise, for every number of chunks, one chunk included: no exception caused
\* by save_to_file propagates out of convert_chapter.
C2_SynthesisFailureCaught == exc.kind # "TTSEngineError"

\* C3: in convert_chapter with two or more chunks of which some but not all
\* fail, the list handed to concatenation holds exactly one fragment per
\* successful chunk and none of a failed chunk, and the chapter output path is
\* returned once the concatenation utility has done its work (a failure of
\* the utility itself is raised as ProcessingError).
C3_PartialFailureKeepsSuccessful ==
    (/\ pc \in {"chapter_return", "chapter_raise"}
     /\ n_chunks >= 2
     /\ Succeeded # {}
     /\ Succeeded # DOMAIN task)
    => /\ Range(concat_arg) = Succeeded
       /\ Len(concat_arg) = Cardinality(Succeeded)
       /\ pc = "chapter_return" => chapter_result = "path"
       /\ pc = "chapter_raise" => exc = [kind |-> "ProcessingError", where |-> "chapter"]

C3_Witness ==
    /\ pc = "chapter_return"
    /\ n_chunks >= 3
    /\ \E k \in DOMAIN task : task[k] = "fail"
    /\ Len(concat_arg) = 2
    /\ chapter_result = "path"

\* C4: at no time are two save_to_file calls in progress on the one
\* synthesis backend instance.
C4_NoConcurrentSynthesis == InFlight <= 1

\* C5: once a stop of the running conversion has been requested, no new
\* chunk-synthesis task is submitted and no further chapter is started.
C5_NoNewWorkAfterStop ==
    [][(stop_requested /\ worker = "converting")
       => /\ \A k \in DOMAIN task' :
                task'[k] = "queued" => (k \in DOMAIN task /\ task[k] # "none")
          /\ (pc' = "convert_chapter" => pc = "convert_chapter")]_vars

\* C6: once a stop of the running conversion has been requested, no further
\* progress or status update of that conversion reaches the status bar or
\* the progress bar (the acknowledgements "Stopping conversion..." and
\* "Conversion stopped" of the stop itself apart), and the worker shows no
\* error.
C6_NoUpdatesAfterStop ==
    [][(stop_requested /\ worker \in {"converting", "failed", "finally"})
       => /\ gui_progress' = gui_progress
          /\ \/ gui_status' = gui_status
             \/ gui_status'.msg \in {"Stopping conversion...", "Conversion stopped"}
          /\ dialog' = dialog]_vars

\* C7: over a convert_book run the values passed to the progress callback
\* never decrease, and each equals (chapter index + completed chunks / total
\* chunks) / total chapters * 100, for every completion order and every
\* pattern of chunk failures.
CompletedChunks == IF pc = "single_call" THEN 1 ELSE collected + 1
C7_ProgressMonotone ==
    [][/\ FracLeq(progress, progress')
       /\ progress' # progress =>
            /\ n_chapters > 0 /\ n_chunks > 0
            /\ progress'.num * (n_chunks * n_chapters)
                 = (chapter * n_chunks + CompletedChunks) * progress'.den]_vars

C7_Witness ==
    /\ chapter = 1
    /\ pc = "collect"
    /\ collected = 2
    /\ \E k \in DOMAIN task : task[k] = "fail"
    /\ progress = [num |-> n_chunks + 2, den |-> n_chunks * n_chapters]

\* C8: if the conversion of a chapter raises, convert_book aborts: no later
\* chapter is converted, the final concatenation is never invoked and the
\* failure is raised to the caller.
ChapterStatuses == {a \in 1 .. Len(status_log) : status_log[a].msg = "Converting chapter"}
C8_ChapterFailureAborts ==
    exc.where = "chapter"
    => /\ pc \in {"chapter_raise", "done"}
       /\ pc = "done" => result = "raised"
       /\ book_concat = <<>>
       /\ Running = {}
       /\ Cardinality(ChapterStatuses) = chapter + 1

C8_Witness ==
    /\ exc.where = "chapter"
    /\ pc = "done"
    /\ chapter = 0
    /\ n_chapters = 2
    /\ result = "raised"

\* C9: convert_book on a document without chapters returns null, emits
\* exactly one status notification, raises nothing and invokes neither
\* synthesis nor concatenation.
C9_NoChapters ==
    (n_chapters = 0 /\ pc = "done")
    => /\ result = "null"
       /\ Len(status_log) = 1
       /\ exc = NoExc
       /\ n_synth = 0
       /\ concat_arg = <<>>
       /\ book_concat = <<>>

C9_Witness == n_chapters = 0 /\ pc = "done" /\ status_log # <<>>

\* C10: if there is at least one chapter and every convert_chapter returns
\* null, convert_book returns null, says so in a status notification, never
\* invokes the final concatenation and does not raise.
C10_NoUsableAudio ==
    (/\ n_chapters >= 1
     /\ pc = "done"
     /\ exc = NoExc
     /\ chapter_files = <<>>)
    => /\ result = "null"
       /\ Last(status_log) = Msg("No audio chapters generated", 0)
       /\ book_concat = <<>>

C10_Witness ==
    /\ n_chapters = 2
    /\ pc = "done"
    /\ result = "null"
    /\ n_synth >= 3

\* C11: whenever the synthesis of every chunk of a chapter failed,
\* convert_chapter returns null without raising and without invoking the
\* concatenation, for every number of chunks, one chunk included.
SingleChunkFailed == n_chunks = 1 /\ exc.kind = "TTSEngineError"
AllChunksFailed ==
    \/ SingleChunkFailed
    \/ n_chunks >= 2 /\ \A k \in DOMAIN task : task[k] = "fail"
C11_AllFailedReturnsNull ==
    (AllChunksFailed /\ pc \in {"chapter_return", "chapter_raise"})
    => /\ pc = "chapter_return"
       /\ chapter_result = "null"
       /\ concat_arg = <<>>

\* C12: a chapter whose text is empty makes convert_chapter return null at
\* once: nothing is raised, the synthesis backend is not called, no task is
\* submitted, the concatenation is not invoked; and the step after it is the
\* book loop moving to the next chapter, the chapter file list unchanged.
EmptyChapterReturnsNull ==
    (pc = "convert_chapter" /\ chapter_text' = "empty")
    => /\ pc' = "chapter_return"
       /\ chapter_result' = "null"
       /\ exc' = NoExc
       /\ n_synth' = n_synth
       /\ task' = NoTasks
       /\ concat_arg' = <<>>
       /\ chapter' = chapter
EmptyChapterContinues ==
    chapter_text = "empty"
    => /\ pc = "chapter_return"
       /\ chapter' = chapter + 1
       /\ chapter_files' = chapter_files
       /\ exc' = NoExc
       /\ n_synth' = n_synth
       /\ book_concat' = <<>>
       /\ pc' = IF chapter + 1 < n_chapters THEN "chapter_status"
                                            ELSE "book_combine"
C12_EmptyChapterSkipped ==
    [][EmptyChapterReturnsNull /\ EmptyChapterContinues]_vars

\* An empty first chapter of a two-chapter book has just returned.
C12_Witness ==
    /\ chapter_text = "empty"
    /\ pc = "chapter_return"
    /\ chapter_result = "null"
    /\ chapter = 0
    /\ n_chapters = 2

\* C13: chapters are converted one after another. A chunk task is queued or
\* running only while its own chapter's convert_chapter is between submitting
\* and collecting; when the concatenation is invoked, and whenever the book
\* loop is outside convert_chapter, no task is pending; the loop moves to the
\* next chapter only from a returned convert_chapter whose tasks have all
\* completed; a single-chunk synthesis never overlaps with pool tasks.
Pending == {k \in DOMAIN task : task[k] \in {"queued", "running"}}
TasksWithinChapter ==
    /\ Pending # {} => pc \in {"submit", "as_completed", "collect"}
    /\ pc \in {"combine", "chapter_return", "chapter_raise"}
          => DOMAIN task = Finished
    /\ pc \in {"book_start", "chapter_status", "convert_chapter", "single",
               "single_call", "book_combine", "book_concat"}
          => task = NoTasks
    /\ DOMAIN task \subseteq Chunks
NextChapterAfterAllDone ==
    chapter' # chapter
    => /\ pc = "chapter_return"
       /\ chapter' = chapter + 1
       /\ Pending = {}
       /\ InFlight = 0
       /\ task' = NoTasks
C13_ChaptersSequential ==
    []TasksWithinChapter /\ [][NextChapterAfterAllDone]_vars

\* Tasks of the second chapter are running after the first chapter has
\* produced its file.
C13_Witness ==
    /\ chapter = 1
    /\ chapter_files = <<0>>
    /\ Cardinality(Running) = 2

\* C14 as stated: on a convert_book run of a book with chapters in which no
\* chapter raises, the final concatenation has been invoked exactly once when
\* the run ends.
C14_ConcatExactlyOnce ==
    (pc = "done" /\ n_chapters >= 1 /\ exc.where # "chapter")
    => Len(book_concat) = 1

\* C14 amended: on a run in which no chapter raises, the final concatenation
\* is invoked exactly once if at least one chapter yielded a file and not at
\* all otherwise; the invocation comes after the last chapter has been
\* processed and its argument holds exactly the chapter files produced, in
\* ascending chapter-index order.
ConcatOnceIfAnyFile ==
    /\ Len(book_concat) <= 1
    /\ (pc = "done" /\ exc.where # "chapter")
          => Len(book_concat) = IF chapter_files # <<>> THEN 1 ELSE 0
    /\ exc.where = "chapter" => book_concat = <<>>
ConcatAfterLastChapter ==
    book_concat' # book_concat
    => /\ book_concat = <<>>
       /\ Len(book_concat') = 1
       /\ chapter = n_chapters
       /\ chapter_out_files # {}
       /\ Range(book_concat'[1]) = chapter_out_files
       /\ Ascending(book_concat'[1])
C14_ConcatOnceInOrder ==
    []ConcatOnceIfAnyFile /\ [][ConcatAfterLastChapter]_vars

\* The first chapter yielded no file, the second did, and the book was
\* combined from the second alone.
C14_Witness ==
    /\ pc = "done"
    /\ result = "path"
    /\ n_chapters = 2
    /\ book_concat = << <<1>> >>

\* C15: after a multi-chunk convert_chapter whose concatenation succeeded,
\* with keep_temp_files false every fragment file produced for the chapter is
\* gone and the chapter output file exists, with keep_temp_files true every
\* fragment file produced still exists; until the concatenation has returned
\* every fragment file produced exists, and a fragment file disappears only
\* in the step in which the concatenation succeeds, and only with
\* keep_temp_files false.
FragmentsAfterCombine ==
    /\ (pc = "chapter_return" /\ n_chunks >= 2 /\ chapter_result = "path")
          => /\ frag_files = IF keep_temp_files THEN Succeeded ELSE {}
             /\ Succeeded # {}
             /\ chapter \in chapter_out_files
    /\ pc \in {"submit", "as_completed", "collect", "combine", "chapter_raise"}
          => frag_files = Succeeded
FragmentsDeletedOnlyAfterConcat ==
    (pc # "chapter_return" /\ frag_files \ frag_files' # {})
    => /\ pc = "combine"
       /\ ~keep_temp_files
       /\ chapter_result' = "path"
       /\ Range(concat_arg') = frag_files
       /\ chapter_out_files' = chapter_out_files \cup {chapter}
C16_TempFilesRemoved ==
    (pc = "done" /\ ~keep_temp_files /\ ~temp_dir_set)
    => /\ tmp_dirs = 0
       /\ frag_files = {}
       /\ ~stale_frags
       /\ chapter_out_files = {}

\* s occurs in t as a contiguous run of characters.
Occurs(s, t) ==
    \E a \in 1 .. (Len(t) - Len(s) + 1) : SubSeq(t, a, a + Len(s) - 1) = s

Sentences == split_into_sentences(clean_text(text))

\* C17: every chunk returned by split_text_into_chunks is at most chunk_size
\* characters long, unless it contains a sentence of the text that is itself
\* longer than chunk_size.
C17_ChunkWithinSize ==
    text_pc = "done"
    => \A c \in DOMAIN chunks :
          \/ Len(chunks[c]) <= chunk_size
          \/ \E k \in DOMAIN Sentences :
                /\ Len(Sentences[k]) > chunk_size
                /\ Occurs(Sentences[k], chunks[c])

\* C18: a text of at most chunk_size characters, the empty text included, is
\* returned as exactly one chunk, equal to clean_text of the text.
C18_ShortTextOneChunk ==
    (text_pc = "done" /\ Len(text) <= chunk_size)
    => chunks = <<clean_text(text)>>

\* What is left of chunk c when its overlap seed is taken off its front.
WithoutSeed(c) ==
    Strip(SubSeq(chunks[c], Len(seeds[c]) + 1, Len(chunks[c])))

\* The sentences of chunks c .. Len(chunks), seeds removed, in order.
RECURSIVE SentencesFrom(_)
SentencesFrom(c) ==
    IF c > Len(chunks) THEN <<>>
    ELSE split_into_sentences(WithoutSeed(c)) \o SentencesFrom(c + 1)

\* C19: when a text is split into more than one chunk, every chunk begins with
\* its overlap seed, the seed of a chunk is made of the last words of the chunk
\* before it, and the chunks without their seeds, taken in order, hold exactly
\* the sentences of the cleaned text: each once, in the original order.
C19_ChunksRebuildSentences ==
    (text_pc = "done" /\ Len(chunks) > 1)
    => /\ Len(seeds) = Len(chunks)
       /\ seeds[1] = <<>>
       /\ \A c \in DOMAIN chunks :
             SubSeq(chunks[c], 1, Len(seeds[c])) = seeds[c]
       /\ \A c \in 2 .. Len(chunks) :
             \E m \in 0 .. Len(Words(chunks[c - 1])) :
                Words(seeds[c]) =
                    SubSeq(Words(chunks[c - 1]),
                           Len(Words(chunks[c - 1])) - m + 1,
                           Len(Words(chunks[c - 1])))
       /\ SentencesFrom(1) = Sentences

\* A text was split into three chunks, the last one starting with a seed.
C19_Witness ==
    /\ text_pc = "done"
    /\ Len(chunks) = 3
    /\ seeds[3] # <<>>
    /\ overlap >= 1
    /\ Len(Sentences) >= 2

\* C20: across any sequence of get_chapters, get_chapter_text and
\* get_chapter_title calls on one Ebook, the processor's chapter discovery
\* returns a list at most once: after the first successful discovery the
\* cached list is used, also when that list is empty.
C20_DiscoveryAtMostOnce == discoveries <= 1

\* The sentences held by chunk c outside its overlap seed.
OwnSentences(c) == split_into_sentences(WithoutSeed(c))

\* C26: a sentence longer than chunk_size is never split across chunks and no
\* later (or earlier) sentence shares with it the part of a chunk that lies
\* outside the overlap seed: the chunk it is placed in ends with it, whole.
C26_OversizedSentenceAlone ==
    (text_pc = "done" /\ Len(chunks) > 1)
    => /\ \A k \in DOMAIN Sentences :
             Len(Sentences[k]) > chunk_size
             => \E c \in DOMAIN chunks : WithoutSeed(c) = Sentences[k]
       /\ \A c \in DOMAIN chunks :
             \A j \in DOMAIN OwnSentences(c) :
                Len(OwnSentences(c)[j]) > chunk_size
                => /\ Len(OwnSentences(c)) = 1
                   /\ SubSeq(chunks[c],
                             Len(chunks[c]) - Len(OwnSentences(c)[j]) + 1,
                             Len(chunks[c])) = OwnSentences(c)[j]

\* An oversized sentence sits in a chunk of its own and a later sentence went
\* to the next chunk.
C26_Witness ==
    /\ text_pc = "done"
    /\ \E c \in 1 .. (Len(chunks) - 1) :
          /\ Len(WithoutSeed(c)) > chunk_size
          /\ Len(OwnSentences(c)) = 1
          /\ WithoutSeed(c + 1) # <<>>

\* C29: for a non-empty input text, no element of the list returned by
\* split_text_into_chunks is the empty string.
C29_NoEmptyChunk ==
    (text_pc = "done" /\ text # <<>>)
    => \A c \in DOMAIN chunks : chunks[c] # <<>>

\* C28: whenever no conversion worker thread exists and convert() is not in
\* the middle of its UI update, is_converting is false, so that convert() can
\* start a new conversion.
C28_IdleMeansNotConverting ==
    (worker \in {"none", "ended"} /\ ui_pc = "idle") => ~is_converting

\* C23: once an Ebook is constructed, title, author and language are never
\* None, and a field the document lacks has its default: the file base name,
\* "Unknown", "en".
C23_MetadataDefaults ==
    doc_pc = "loaded"
    => /\ title # "None" /\ author # "None" /\ language # "None"
       /\ meta_src.title = "absent" => title = "basename"
       /\ meta_src.author = "absent" => author = "Unknown"
       /\ meta_src.language = "absent" => language = "en"


\* The chapter list the last call worked on could be obtained.
ChaptersKnown == access.out.val # "discovery"

C22_TitleNonEmpty ==
    (/\ access.op = "get_chapter_title"
     /\ access.index >= 0
     /\ access.index < processor_chapters)
    => /\ access.out.kind = "str"
       /\ access.out.val # ""

RECURSIVE PreOrder(_, _)
\* The entries of an outline in pre-order, each with its nesting level.
PreOrder(items, level) ==
    IF items = <<>> THEN <<>>
    ELSE <<[page |-> Head(items).page, level |-> level]>>
         \o PreOrder(Head(items).children, level + 1)
         \o PreOrder(Tail(items), level)

\* C27: for a PDF with an outline, the chapters are the outline entries in
\* pre-order with their page numbers and levels; every chapter but the last
\* ends on the page before the next chapter's first page, and the last one
\* ends on the final page.
C27_OutlineChapters ==
    (doc_pc = "loaded" /\ format = "pdf" /\ outline # <<>>)
    => /\ Len(pdf_chapters) = Len(PreOrder(outline, 0))
       /\ \A i \in DOMAIN pdf_chapters :
             /\ pdf_chapters[i].page_start = PreOrder(outline, 0)[i].page
             /\ pdf_chapters[i].level = PreOrder(outline, 0)[i].level
             /\ pdf_chapters[i].page_end =
                   (IF i < Len(pdf_chapters)
                    THEN pdf_chapters[i + 1].page_start - 1
                    ELSE n_pages - 1)

\* A nested entry whose last descendant got the final page as page_end in
\* the nested call and is followed by a further entry.
C27_Witness ==
    /\ doc_pc = "loaded"
    /\ format = "pdf"
    /\ Len(outline) >= 2
    /\ outline[1].nested
    /\ outline[1].children # <<>>
    /\ pdf_chapters[1 + Size(outline[1].children)].page_end # n_pages - 1


\* The 0-based indexes of the lines that match a chapter marker.
MarkerLines == {i \in 0 .. (Len(lines) - 1) : lines[i + 1] \in {"start", "short_in"}}

\* The j-th smallest member of a set of numbers.
Nth(S, j) == CHOOSE x \in S : Cardinality({y \in S : y < x}) = j - 1

\* C24: a text with k >= 1 marker lines gives k chapters in line order;
\* chapter j is titled with the stripped j-th marker line, spans from it to
\* the line before the next marker line (to the last line for j = k) and has
\* non-empty text.
C24_MarkerChapters ==
    (doc_pc = "loaded" /\ format = "txt" /\ MarkerLines # {})
    => /\ Len(txt_chapters) = Cardinality(MarkerLines)
       /\ \A j \in DOMAIN txt_chapters :
             /\ txt_chapters[j].title = <<"line", Nth(MarkerLines, j)>>
             /\ txt_chapters[j].start_idx = Nth(MarkerLines, j)
             /\ txt_chapters[j].end_idx =
                   (IF j < Cardinality(MarkerLines)
                    THEN Nth(MarkerLines, j + 1) - 1
                    ELSE Len(lines) - 1)
             /\ TxtChapterText(txt_chapters[j], lines, total_sentences) # ""

C24_Witness ==
    /\ doc_pc = "loaded"
    /\ format = "txt"
    /\ lines = <<"plain", "short_in", "start">>
    /\ Len(txt_chapters) = 2
    /\ txt_chapters[1].end_idx = 1

\* The span size the default chapters are to have for N sentences.
SpanSize(N) == IF N <= 50 THEN N ELSE IF N <= 200 THEN 50 ELSE 100

\* C25: a text without marker lines and with N >= 1 sentences gives chapters
\* whose sentence spans are consecutive, start at 0, end at N - 1 and hold S
\* sentences each, the last one possibly fewer, with S = N up to 50, 50 up to
\* 200 and 100 above.
C25_DefaultChapters ==
    (doc_pc = "loaded" /\ format = "txt" /\ MarkerLines = {} /\ total_sentences >= 1)
    => /\ Len(txt_chapters) >= 1
       /\ txt_chapters[1].start_idx = 0
       /\ txt_chapters[Len(txt_chapters)].end_idx = total_sentences - 1
       /\ \A j \in DOMAIN txt_chapters :
             /\ txt_chapters[j].is_sentence_index
             /\ txt_chapters[j].start_idx <= txt_chapters[j].end_idx
             /\ j < Len(txt_chapters)
                   => /\ txt_chapters[j + 1].start_idx = txt_chapters[j].end_idx + 1
                      /\ txt_chapters[j].end_idx - txt_chapters[j].start_idx + 1
                            = SpanSize(total_sentences)
             /\ txt_chapters[j].end_idx - txt_chapters[j].start_idx + 1
                   <= SpanSize(total_sentences)

\* 60 sentences give the spans 0-49 and 50-59.
C25_Witness ==
    /\ doc_pc = "loaded"
    /\ format = "txt"
    /\ MarkerLines = {}
    /\ total_sentences = 60
    /\ Len(txt_chapters) = 2
    /\ txt_chapters[1].start_idx = 0 /\ txt_chapters[1].end_idx = 49
    /\ txt_chapters[2].start_idx = 50 /\ txt_chapters[2].end_idx = 59

\* C30: in a text with a marker line every line lies in the span of exactly
\* one chapter.
C30_SpansPartitionLines ==
    (doc_pc = "loaded" /\ format = "txt" /\ MarkerLines # {})
    => \A i \in 0 .. (Len(lines) - 1) :
          Cardinality({j \in DOMAIN txt_chapters :
                          /\ txt_chapters[j].start_idx <= i
                          /\ i <= txt_chapters[j].end_idx}) = 1


============================================================================
